---- MODULE Spec2Model ----
(***************************************************************************)
(* Model of the tess-atlas catalog accessor (tess_atlas/data/exofop.py)    *)
(* and of the composite entry (tess_atlas/data/tic_entry.py).              *)
(*                                                                         *)
(* A pandas DataFrame is a record                                          *)
(*     [columns : set of column names,                                     *)
(*      index   : sequence of row labels,                                  *)
(*      rows    : sequence of functions  column name -> value]             *)
(* and a CSV file on disk is a record [header, lines]; the header of a     *)
(* file written with the index holds the empty column name "".             *)
(* The TOI column holds hundredths (TOI 101.02 is 10102), so that          *)
(* "toi_number + 0.01" is toi_number * 100 + 1.                            *)
(***************************************************************************)
EXTENDS Integers, Sequences, FiniteSets, TLC

VARIABLES
    remote,     \* which catalog the ExoFOP server currently serves
    dbFile,     \* content of cached_tic_database.csv, or NoFile
    memo,       \* functools.lru_cache of exofop.get_tic_database, per call form
    catMemo,    \* functools.lru_cache of get_toi_numbers_for_different_categories
    fs,         \* the per-TOI output directories toi_<toi>_files
    entries,    \* the TICEntry objects constructed so far
    nextObj,    \* identity of the next sub-cache object to be allocated
    envSteps,   \* number of outside events so far
    ret,        \* what the last call did: operation, arguments, outcome
    procs,      \* two processes inside load_tic_data: position and locals
    lastWriter  \* history: the process that last wrote each file of a directory

vars == <<remote, dbFile, memo, catMemo, fs, entries, nextObj, envSteps, ret, procs, lastWriter>>

-----------------------------------------------------------------------------
(* Bounds *)

MaxEntries == 2
MaxEnvSteps == 2
MaxRequest == 2
MaxObjects == 6

-----------------------------------------------------------------------------
(* Values *)

NoFile == [absent |-> TRUE]
None == [none |-> TRUE]
Raise(kind) == [exc |-> kind]
IsExc(v) == "exc" \in DOMAIN v
IsFrame(v) == "rows" \in DOMAIN v

BaseCols == {"TOI", "TIC ID", "Period (days)"}
SplitCols == {"TOI int", "planet count"}
FlagCols == {"Multiplanet System", "Single Transit", "Lightcurve Availible"}
IndexHeader == ""

UnnamedCol(k) == IF k = 0 THEN "Unnamed: 0" ELSE "Unnamed: 0." \o ToString(k)

BaseRow(toi, tic, period) ==
    [c \in BaseCols |-> CASE c = "TOI" -> toi
                          [] c = "TIC ID" -> tic
                          [] OTHER -> period]

\* What the ExoFOP server serves (TIC_DATASOURCE); the server is outside the
\* program, so its row order is not taken to be sorted.
RemoteCatalogs ==
    << << BaseRow(102, 11, 5), BaseRow(101, 11, 3), BaseRow(201, 22, 0) >>,
       << BaseRow(101, 11, 3), BaseRow(102, 11, 5), BaseRow(201, 22, 0),
          BaseRow(301, 22, 4), BaseRow(401, 33, 0), BaseRow(402, 33, 2),
          BaseRow(501, 44, 7) >> >>

\* TOI numbers a caller asks for; 9 is in no catalog.
ToiNumbers == {1, 2, 9}

\* TOI numbers entries are asked for: one with two candidates, one unknown
EntryTois == {1, 9}

\* len(lk.search_lightcurve(target="TIC <tic>", mission="TESS", author="SPOC"))
SearchLightcurveCount(tic) == IF tic \in {11, 33, 44} THEN 2 ELSE 1

Range(s) == {s[i] : i \in DOMAIN s}

-----------------------------------------------------------------------------
(* pandas *)

RangeIndex(n) == [i \in 1..n |-> i - 1]

\* df[df[col] == value]: the matching rows, with their labels, in stored order
SelectEq(df, col, value) ==
    LET keep == SelectSeq([i \in 1..Len(df.rows) |-> i],
                          LAMBDA i : df.rows[i][col] = value)
    IN  [columns |-> df.columns,
         index |-> [k \in 1..Len(keep) |-> df.index[keep[k]]],
         rows |-> [k \in 1..Len(keep) |-> df.rows[keep[k]]]]

\* positions of df in ascending order of column col (ties keep stored order)
RECURSIVE SortedPositions(_, _, _)
SortedPositions(df, col, todo) ==
    IF todo = {} THEN << >>
    ELSE LET m == CHOOSE i \in todo : \A j \in todo :
                      \/ df.rows[i][col] < df.rows[j][col]
                      \/ (df.rows[i][col] = df.rows[j][col] /\ i <= j)
         IN  <<m>> \o SortedPositions(df, col, todo \ {m})

\* df.sort_values(col)
sort_values(df, col) ==
    LET pos == SortedPositions(df, col, DOMAIN df.rows)
    IN  [columns |-> df.columns,
         index |-> [k \in 1..Len(pos) |-> df.index[pos[k]]],
         rows |-> [k \in 1..Len(pos) |-> df.rows[pos[k]]]]

\* pd.concat(dfs) of frames with the same columns
RECURSIVE concat(_)
concat(dfs) ==
    IF Len(dfs) = 1 THEN dfs[1]
    ELSE LET rest == concat(Tail(dfs))
         IN  [columns |-> dfs[1].columns \cup rest.columns,
              index |-> dfs[1].index \o rest.index,
              rows |-> dfs[1].rows \o rest.rows]

\* df.to_csv(path, index=withIndex): the file's content
to_csv(df, withIndex) ==
    IF withIndex
    THEN [header |-> df.columns \cup {IndexHeader},
          lines |-> [i \in 1..Len(df.rows) |->
                        [c \in df.columns \cup {IndexHeader} |->
                            IF c = IndexHeader THEN df.index[i] ELSE df.rows[i][c]]]]
    ELSE [header |-> df.columns, lines |-> df.rows]

\* the names pandas gives to unnamed columns, in the order they move up
UnnamedCols == [k \in 1..((MaxEnvSteps + 1) * MaxEntries + 1) |-> UnnamedCol(k - 1)]

\* the place of a name among the unnamed column names, 0 for other names
Level(c) ==
    IF \E k \in DOMAIN UnnamedCols : UnnamedCols[k] = c
    THEN CHOOSE k \in DOMAIN UnnamedCols : UnnamedCols[k] = c
    ELSE 0

\* the name pandas gives a header cell on reading: the empty cell becomes
\* "Unnamed: 0", and a column already carrying an "Unnamed" name moves up
MangledName(c, header) ==
    IF IndexHeader \notin header THEN c
    ELSE IF c = IndexHeader THEN UnnamedCols[1]
    ELSE IF Level(c) > 0 THEN UnnamedCols[Level(c) + 1]
    ELSE c

\* the header cell a column name of the frame came from
HeaderCell(n, header) ==
    IF IndexHeader \notin header THEN n
    ELSE IF Level(n) = 1 THEN IndexHeader
    ELSE IF Level(n) > 1 THEN UnnamedCols[Level(n) - 1]
    ELSE n

\* pd.read_csv(path) of a well-formed file
read_csv(csv) ==
    LET cols == {MangledName(c, csv.header) : c \in csv.header}
    IN  [columns |-> cols,
         index |-> RangeIndex(Len(csv.lines)),
         rows |-> [i \in 1..Len(csv.lines) |->
                      [n \in cols |-> csv.lines[i][HeaderCell(n, csv.header)]]]]

\* pd.read_csv(TIC_DATASOURCE)
RemoteCsv(v) == [header |-> BaseCols, lines |-> RemoteCatalogs[v]]

-----------------------------------------------------------------------------
(* exofop.py *)

is_lightcurve_availible(tic) == SearchLightcurveCount(tic) > 1

\* int of what follows the "." in str(TOI): "101.01" gives 1, and a TOI
\* printed with one decimal, "101.1", gives 1 as well
AfterPoint(toi) ==
    IF (toi % 100) % 10 = 0 THEN (toi % 100) \div 10 ELSE toi % 100

\* lines 31-41 of get_tic_database: the derived columns
DeriveColumns(db) ==
    LET n == Len(db.rows)
        toiInt(i) == db.rows[i]["TOI"] \div 100
        Derived(i, c) ==
            CASE c = "TOI int" -> toiInt(i)
              [] c = "planet count" -> AfterPoint(db.rows[i]["TOI"])
              [] c = "Multiplanet System" ->
                     \E j \in 1..n : j # i /\ toiInt(j) = toiInt(i)
              [] c = "Single Transit" -> db.rows[i]["Period (days)"] <= 0
              [] c = "Lightcurve Availible" ->
                     is_lightcurve_availible(db.rows[i]["TIC ID"])
              [] OTHER -> db.rows[i][c]
    IN  [columns |-> db.columns \cup SplitCols \cup FlagCols,
         index |-> db.index,
         rows |-> [i \in 1..n |->
                      [c \in db.columns \cup SplitCols \cup FlagCols |-> Derived(i, c)]]]

\* the forms under which get_tic_database is called; lru_cache keys on the
\* arguments as passed, so each form has its own memo slot (the positional
\* forms (False) and (True) have slots of their own in the same way)
CallForms == {"()", "(clean=False)", "(clean=True)"}
Clean(form) == form = "(clean=True)"

\* the body of exofop.get_tic_database, without the memo: the value returned
\* (or the exception) and the flat file afterwards
GetTicDatabaseBody(clean, file, v, netOk) ==
    IF file # NoFile /\ ~clean
    THEN [out |-> read_csv(file), file |-> file, net |-> {}]
    ELSE IF ~netOk
    THEN [out |-> Raise("URLError"), file |-> file, net |-> {"catalog"}]
    ELSE LET db == DeriveColumns(read_csv(RemoteCsv(v)))
         IN  [out |-> db, file |-> to_csv(db, FALSE), net |-> {"catalog"}]

\* exofop.get_tic_database under functools.lru_cache
get_tic_database(form, m, file, v, netOk) ==
    IF m[form] # None
    THEN [out |-> m[form], file |-> file, net |-> {}, memo |-> m]
    ELSE LET r == GetTicDatabaseBody(Clean(form), file, v, netOk)
         IN  [out |-> r.out, file |-> r.file, net |-> r.net,
              memo |-> IF IsExc(r.out) THEN m ELSE [m EXCEPT ![form] = r.out]]

\* tic_db[tic_db["TOI"] == toi_number + 0.01].iloc[0]["TIC ID"]
TicIdIn(tic_db, toi_number) ==
    LET hit == SelectEq(tic_db, "TOI", toi_number * 100 + 1)
    IN  IF Len(hit.rows) = 0 THEN Raise("IndexError") ELSE [val |-> hit.rows[1]["TIC ID"]]

\* RowsForTics without the sort_values("TOI")
RowsForTics_Unsorted(tic_db, lookup_db, toi_numbers) ==
    LET tics == [i \in 1..Len(toi_numbers) |-> TicIdIn(lookup_db, toi_numbers[i])]
        dfs == [i \in 1..Len(toi_numbers) |->
                   SelectEq(tic_db, "TIC ID", tics[i].val)]
    IN  IF \E i \in 1..Len(tics) : IsExc(tics[i])
        THEN Raise("IndexError")
        ELSE IF Len(toi_numbers) = 0 THEN Raise("ValueError: No objects to concatenate")
        ELSE IF Len(concat(dfs).rows) < 1 THEN Raise("ValueError: TOI data does not exist")
        ELSE concat(dfs)

\* lines 76-81 of get_tic_data_from_database, given the frame tic_db and the
\* frame the id lookups see
RowsForTics(tic_db, lookup_db, toi_numbers) ==
    LET tics == [i \in 1..Len(toi_numbers) |-> TicIdIn(lookup_db, toi_numbers[i])]
        dfs == [i \in 1..Len(toi_numbers) |->
                   sort_values(SelectEq(tic_db, "TIC ID", tics[i].val), "TOI")]
    IN  IF \E i \in 1..Len(tics) : IsExc(tics[i])
        THEN Raise("IndexError")
        ELSE IF Len(toi_numbers) = 0 THEN Raise("ValueError: No objects to concatenate")
        ELSE IF Len(concat(dfs).rows) < 1 THEN Raise("ValueError: TOI data does not exist")
        ELSE concat(dfs)

\* exofop.get_tic_id_for_toi
get_tic_id_for_toi(toi_number, m, file, v, netOk) ==
    LET g == get_tic_database("()", m, file, v, netOk)
    IN  [out |-> IF IsExc(g.out) THEN g.out ELSE TicIdIn(g.out, toi_number),
         file |-> g.file, net |-> g.net, memo |-> g.memo]

\* exofop.get_tic_data_from_database; the id lookups call get_tic_database()
\* again and hit the memo the first call left
get_tic_data_from_database(toi_numbers, m, file, v, netOk) ==
    LET g == get_tic_database("()", m, file, v, netOk)
    IN  [out |-> IF IsExc(g.out) THEN g.out
                 ELSE RowsForTics(g.out, g.memo["()"], toi_numbers),
         file |-> g.file, net |-> g.net, memo |-> g.memo]

\* filter_db_without_lk; a frame without the column gives KeyError
filter_db_without_lk(db, remove) ==
    IF ~remove THEN db
    ELSE IF "Lightcurve Availible" \notin db.columns THEN Raise("KeyError")
    ELSE SelectEq(db, "Lightcurve Availible", TRUE)

\* list(set(...)): every element once; the order is the set's, here ascending
RECURSIVE SetToList(_)
SetToList(S) ==
    IF S = {} THEN << >>
    ELSE LET m == CHOOSE x \in S : \A y \in S : x <= y
         IN  <<m>> \o SetToList(S \ {m})

\* set(df["TOI"].astype(int))
ToiInts(df) == {df.rows[i]["TOI"] \div 100 : i \in DOMAIN df.rows}

\* Classify whose "norm" leaves out only the single-transit rows
Classify_NormKeepsMulti(lk) ==
    IF IsExc(lk) THEN lk
    ELSE IF ~({"Multiplanet System", "Single Transit"} \subseteq lk.columns)
    THEN Raise("KeyError")
    ELSE [multi |-> SetToList(ToiInts(SelectEq(lk, "Multiplanet System", TRUE))),
          single |-> SetToList(ToiInts(SelectEq(lk, "Single Transit", TRUE))),
          norm |-> SetToList(ToiInts(SelectEq(lk, "Single Transit", FALSE)))]

\* lines 56-66 of get_toi_numbers_for_different_categories, given the frame
\* filter_db_without_lk has left (or the exception it raised)
Classify(lk) ==
    IF IsExc(lk) THEN lk
    ELSE IF ~({"Multiplanet System", "Single Transit"} \subseteq lk.columns)
    THEN Raise("KeyError")
    ELSE [multi |-> SetToList(ToiInts(SelectEq(lk, "Multiplanet System", TRUE))),
          single |-> SetToList(ToiInts(SelectEq(lk, "Single Transit", TRUE))),
          norm |-> SetToList(ToiInts(SelectEq(SelectEq(lk, "Single Transit", FALSE),
                                              "Multiplanet System", FALSE)))]

\* the outcome of a call that got g from get_tic_database() and went on to out
AfterGetTicDatabase(g, out) ==
    [out |-> IF IsExc(g.out) THEN g.out ELSE out,
     file |-> g.file, net |-> g.net, memo |-> g.memo]

\* the same, the value returned being memoized unless it is an exception
Memoized(r, cm) ==
    [out |-> r.out, file |-> r.file, net |-> r.net, memo |-> r.memo,
     catMemo |-> IF IsExc(r.out) THEN cm ELSE r.out]

\* lines 54-66: the body of get_toi_numbers_for_different_categories
CategoriesBody(g) ==
    AfterGetTicDatabase(g, Classify(filter_db_without_lk(g.out, TRUE)))

\* get_toi_numbers_for_different_categories under functools.lru_cache
get_toi_numbers_for_different_categories(cm, m, file, v, netOk) ==
    IF cm # None
    THEN [out |-> cm, file |-> file, net |-> {}, memo |-> m, catMemo |-> cm]
    ELSE Memoized(CategoriesBody(get_tic_database("()", m, file, v, netOk)), cm)

\* list(set(db["TOI"].values.astype(int))), as [val |-> list], or the
\* exception the filter raised
ToiList(db) == IF IsExc(db) THEN db ELSE [val |-> SetToList(ToiInts(db))]

\* lines 96-97 of get_toi_list
ToiListBody(g, remove_toi_without_lk) ==
    AfterGetTicDatabase(g, ToiList(filter_db_without_lk(g.out, remove_toi_without_lk)))

\* get_toi_list: the exception raised, or the list returned as [val |-> list]
get_toi_list(remove_toi_without_lk, m, file, v, netOk) ==
    ToiListBody(get_tic_database("()", m, file, v, netOk), remove_toi_without_lk)

-----------------------------------------------------------------------------
(* tic_entry.py: the module's own catalog functions *)

\* tic_entry.get_tic_database: no memo, no derived columns, index written
TE_get_tic_database(file, v, netOk) ==
    IF file # NoFile
    THEN [out |-> read_csv(file), file |-> file, net |-> {}]
    ELSE IF ~netOk
    THEN [out |-> Raise("URLError"), file |-> file, net |-> {"catalog"}]
    ELSE LET db == read_csv(RemoteCsv(v))
         IN  [out |-> db, file |-> to_csv(db, TRUE), net |-> {"catalog"}]

\* tic_entry.get_tic_data_from_database; every id lookup calls
\* get_tic_database() again, which by then reads the flat file
TE_get_tic_data_from_database(toi_numbers, file, v, netOk) ==
    LET g == TE_get_tic_database(file, v, netOk)
    IN  [out |-> IF IsExc(g.out) THEN g.out
                 ELSE RowsForTics(g.out, read_csv(g.file), toi_numbers),
         file |-> g.file, net |-> g.net]

-----------------------------------------------------------------------------
(* The sub-caches LightCurveData, StellarData and InferenceData, and the    *)
(* PlanetCandidate rows, as the sub-cache contract of the design document   *)
(* describes them.                                                          *)

Corrupt == [corrupt |-> TRUE]

\* build_from_remote(target_identifier): a new object wrapping the remote data
SubCacheFromDatabase(kind, tic, id) == [id |-> id, kind |-> kind, data |-> <<kind, tic>>]

\* build_from_local(directory): reads its own file, fails if absent or unparsable
SubCacheFromCache(kind, file, id) ==
    IF file = NoFile THEN Raise("FileNotFoundError")
    ELSE IF file = Corrupt THEN Raise("CorruptCache")
    ELSE [id |-> id, kind |-> kind, data |-> file.payload]

\* persist(directory): the content of its own file, overwriting
SubCacheFile(obj) == [payload |-> obj.data]

\* InferenceData(trace)
NewInferenceData(trace, id) == [id |-> id, kind |-> "inference_data", data |-> trace]

\* PlanetCandidate.from_database(toi_data, lightcurve): the derived fields of
\* one catalog row and a reference to the shared light curve
PlanetCandidate(toi_data, lightcurve) ==
    [fields |-> [toi |-> toi_data["TOI"], tic |-> toi_data["TIC ID"],
                 period |-> toi_data["Period (days)"]],
     lightcurve |-> lightcurve.id]

-----------------------------------------------------------------------------
(* tic_entry.py: TICEntry *)

TIC_FNAME == "tic_data.csv"
FileNames == {TIC_FNAME, "lightcurve", "stellar_data", "inference_data"}
Traces == {"trace A", "trace B"}

EmptyDir == [f \in FileNames |-> NoFile]

\* os.path.isfile(os.path.join(outdir, name))
isfile(disk, outdir, name) == disk[outdir] # None /\ disk[outdir][name] # NoFile

\* cached_files_present that leaves the stellar file out of the list
cached_files_present_NoStellar(disk, outdir) ==
    IF disk[outdir] # None
    THEN \A d \in {TIC_FNAME, "lightcurve"} : isfile(disk, outdir, d)
    ELSE FALSE

\* TICEntry.cached_files_present
cached_files_present(disk, outdir) ==
    IF disk[outdir] # None
    THEN \A d \in {TIC_FNAME, "lightcurve", "stellar_data"} : isfile(disk, outdir, d)
    ELSE FALSE

\* get_candidates that collects the candidates in reverse row order
get_candidates_Reversed(tic_data, lightcurve) ==
    [i \in 1..Len(tic_data.rows) |->
        PlanetCandidate(tic_data.rows[Len(tic_data.rows) + 1 - i], lightcurve)]

\* TICEntry.get_candidates
get_candidates(tic_data, lightcurve) ==
    [i \in 1..Len(tic_data.rows) |-> PlanetCandidate(tic_data.rows[i], lightcurve)]

\* TICEntry.planet_count
planet_count(e) == Len(e.candidates)

\* save_data that, given a trace, also re-creates the light-curve object
save_data_NewLightCurve(e, trace, disk, id) ==
    LET inf == IF trace # None THEN NewInferenceData(trace.val, id) ELSE e.inference_data
        dir == [disk[e.outdir] EXCEPT
                   ![TIC_FNAME] = to_csv(e.tic_data, TRUE),
                   !["lightcurve"] = SubCacheFile(e.lightcurve),
                   !["stellar_data"] = SubCacheFile(e.stellar_data),
                   !["inference_data"] =
                       IF trace # None THEN SubCacheFile(inf) ELSE @]
    IN  [entry |-> [e EXCEPT !.inference_data = inf,
                             !.lightcurve = IF trace # None
                                            THEN [@ EXCEPT !.id = id + 1] ELSE @],
         disk |-> [disk EXCEPT ![e.outdir] = dir]]

\* save_data that forgets the inference data when it is given no trace
save_data_DropsInference(e, trace, disk, id) ==
    LET inf == IF trace # None THEN NewInferenceData(trace.val, id) ELSE None
        dir == [disk[e.outdir] EXCEPT
                   ![TIC_FNAME] = to_csv(e.tic_data, TRUE),
                   !["lightcurve"] = SubCacheFile(e.lightcurve),
                   !["stellar_data"] = SubCacheFile(e.stellar_data),
                   !["inference_data"] =
                       IF trace # None THEN SubCacheFile(inf) ELSE @]
    IN  [entry |-> [e EXCEPT !.inference_data = inf],
         disk |-> [disk EXCEPT ![e.outdir] = dir]]

\* TICEntry.save_data: the entry and the disk afterwards
save_data(e, trace, disk, id) ==
    LET inf == IF trace # None THEN NewInferenceData(trace.val, id) ELSE e.inference_data
        dir == [disk[e.outdir] EXCEPT
                   ![TIC_FNAME] = to_csv(e.tic_data, TRUE),
                   !["lightcurve"] = SubCacheFile(e.lightcurve),
                   !["stellar_data"] = SubCacheFile(e.stellar_data),
                   !["inference_data"] =
                       IF trace # None THEN SubCacheFile(inf) ELSE @]
    IN  [entry |-> [e EXCEPT !.inference_data = inf],
         disk |-> [disk EXCEPT ![e.outdir] = dir]]

\* an outdir setter that creates the directory and saves nothing
set_outdir_NoSave(e, outdir, disk) ==
    LET made == IF disk[outdir] = None THEN [disk EXCEPT ![outdir] = EmptyDir] ELSE disk
    IN  [entry |-> [e EXCEPT !.outdir = outdir], disk |-> made]

\* the outdir setter: os.makedirs(outdir, exist_ok=True), then save_data()
set_outdir(e, outdir, disk) ==
    LET made == IF disk[outdir] = None THEN [disk EXCEPT ![outdir] = EmptyDir] ELSE disk
    IN  save_data([e EXCEPT !.outdir = outdir], None, made, 0)

\* TICEntry.__init__
NewEntry(tic_number, toi, tic_data, lightcurve, stellar_data, inference_data, loaded_from_cache, disk) ==
    LET e0 == [tic_number |-> tic_number,
               toi_number |-> toi,
               lightcurve |-> lightcurve,
               stellar_data |-> stellar_data,
               inference_data |-> inference_data,
               tic_data |-> tic_data,
               candidates |-> get_candidates(tic_data, lightcurve),
               outdir |-> 0,
               loaded_from_cache |-> FALSE]
        s == set_outdir(e0, toi, disk)
    IN  [entry |-> [s.entry EXCEPT !.loaded_from_cache = loaded_from_cache],
         disk |-> s.disk]

\* from_database that creates the output directory before it fetches anything
from_database_DirFirst(toi, disk, file, v, id, fail) ==
    LET made == IF disk[toi] = None THEN [disk EXCEPT ![toi] = EmptyDir] ELSE disk
        g == TE_get_tic_data_from_database(<<toi>>, file, v, fail # "catalog")
        tic_number == g.out.rows[1]["TIC ID"]
        same(out, net) == [out |-> out, disk |-> made, file |-> g.file, net |-> net]
    IN  IF IsExc(g.out) THEN same(g.out, g.net)
        ELSE IF fail = "lightcurve"
        THEN same(Raise("LightCurveError"), g.net \cup {"lightcurve"})
        ELSE IF fail = "stellar_data"
        THEN same(Raise("StellarDataError"), g.net \cup {"lightcurve", "stellar_data"})
        ELSE LET n == NewEntry(tic_number, toi, g.out,
                               SubCacheFromDatabase("lightcurve", tic_number, id),
                               SubCacheFromDatabase("stellar_data", tic_number, id + 1),
                               None, FALSE, made)
             IN  [out |-> n.entry, disk |-> n.disk, file |-> g.file,
                  net |-> g.net \cup {"lightcurve", "stellar_data"}]

\* TICEntry.from_database
from_database(toi, disk, file, v, id, fail) ==
    LET g == TE_get_tic_data_from_database(<<toi>>, file, v, fail # "catalog")
        tic_number == g.out.rows[1]["TIC ID"]
        same(out, net) == [out |-> out, disk |-> disk, file |-> g.file, net |-> net]
    IN  IF IsExc(g.out) THEN same(g.out, g.net)
        ELSE IF fail = "lightcurve"
        THEN same(Raise("LightCurveError"), g.net \cup {"lightcurve"})
        ELSE IF fail = "stellar_data"
        THEN same(Raise("StellarDataError"), g.net \cup {"lightcurve", "stellar_data"})
        ELSE LET n == NewEntry(tic_number, toi, g.out,
                               SubCacheFromDatabase("lightcurve", tic_number, id),
                               SubCacheFromDatabase("stellar_data", tic_number, id + 1),
                               None, FALSE, disk)
             IN  [out |-> n.entry, disk |-> n.disk, file |-> g.file,
                  net |-> g.net \cup {"lightcurve", "stellar_data"}]

\* from_cache that fetches the light curve remotely when its file is missing
from_cache_RemoteFallback(toi, outdir, disk, file, id) ==
    LET dir == IF disk[outdir] = None THEN EmptyDir ELSE disk[outdir]
        tic_data == read_csv(dir[TIC_FNAME])
        inf == IF isfile(disk, outdir, "inference_data")
               THEN SubCacheFromCache("inference_data", dir["inference_data"], id)
               ELSE None
        missing == dir["lightcurve"] = NoFile
        lc == IF missing
              THEN SubCacheFromDatabase("lightcurve", tic_data.rows[1]["TIC ID"], id + 1)
              ELSE SubCacheFromCache("lightcurve", dir["lightcurve"], id + 1)
        st == SubCacheFromCache("stellar_data", dir["stellar_data"], id + 2)
        net == IF missing THEN {"lightcurve"} ELSE {}
        same(out) == [out |-> out, disk |-> disk, file |-> file, net |-> {}]
    IN  IF dir[TIC_FNAME] = NoFile THEN same(Raise("FileNotFoundError"))
        ELSE IF dir[TIC_FNAME] = Corrupt THEN same(Raise("ParserError"))
        ELSE IF Len(tic_data.rows) = 0 THEN same(Raise("IndexError"))
        ELSE IF IsExc(inf) THEN same(inf)
        ELSE IF IsExc(lc) THEN same(lc)
        ELSE IF IsExc(st) THEN same(st)
        ELSE LET n == NewEntry(tic_data.rows[1]["TIC ID"], toi, tic_data, lc, st, inf,
                               TRUE, disk)
             IN  [out |-> n.entry, disk |-> n.disk, file |-> file, net |-> net]

\* from_cache that never loads the inference-result file
from_cache_NoInference(toi, outdir, disk, file, id) ==
    LET dir == IF disk[outdir] = None THEN EmptyDir ELSE disk[outdir]
        tic_data == read_csv(dir[TIC_FNAME])
        lc == SubCacheFromCache("lightcurve", dir["lightcurve"], id + 1)
        st == SubCacheFromCache("stellar_data", dir["stellar_data"], id + 2)
        same(out) == [out |-> out, disk |-> disk, file |-> file, net |-> {}]
    IN  IF dir[TIC_FNAME] = NoFile THEN same(Raise("FileNotFoundError"))
        ELSE IF dir[TIC_FNAME] = Corrupt THEN same(Raise("ParserError"))
        ELSE IF Len(tic_data.rows) = 0 THEN same(Raise("IndexError"))
        ELSE IF IsExc(lc) THEN same(lc)
        ELSE IF IsExc(st) THEN same(st)
        ELSE LET n == NewEntry(tic_data.rows[1]["TIC ID"], toi, tic_data, lc, st, None,
                               TRUE, disk)
             IN  [out |-> n.entry, disk |-> n.disk, file |-> file, net |-> {}]

\* TICEntry.from_cache
from_cache(toi, outdir, disk, file, id) ==
    LET dir == IF disk[outdir] = None THEN EmptyDir ELSE disk[outdir]
        tic_data == read_csv(dir[TIC_FNAME])
        inf == IF isfile(disk, outdir, "inference_data")
               THEN SubCacheFromCache("inference_data", dir["inference_data"], id)
               ELSE None
        lc == SubCacheFromCache("lightcurve", dir["lightcurve"], id + 1)
        st == SubCacheFromCache("stellar_data", dir["stellar_data"], id + 2)
        same(out) == [out |-> out, disk |-> disk, file |-> file, net |-> {}]
    IN  IF dir[TIC_FNAME] = NoFile THEN same(Raise("FileNotFoundError"))
        ELSE IF dir[TIC_FNAME] = Corrupt THEN same(Raise("ParserError"))
        ELSE IF Len(tic_data.rows) = 0 THEN same(Raise("IndexError"))
        ELSE IF IsExc(inf) THEN same(inf)
        ELSE IF IsExc(lc) THEN same(lc)
        ELSE IF IsExc(st) THEN same(st)
        ELSE LET n == NewEntry(tic_data.rows[1]["TIC ID"], toi, tic_data, lc, st, inf,
                               TRUE, disk)
             IN  [out |-> n.entry, disk |-> n.disk, file |-> file, net |-> {}]

\* load_tic_data that never looks at the cache
load_tic_data_AlwaysRemote(toi, tic_data, disk, file, v, id, fail) ==
    from_database(toi, disk, file, v, id, fail)

\* load_tic_data that goes to the remote sources when it is handed rows
load_tic_data_TicDataDecides(toi, tic_data, disk, file, v, id, fail) ==
    IF cached_files_present(disk, toi) /\ Len(tic_data.rows) = 0
    THEN from_cache(toi, toi, disk, file, id)
    ELSE from_database(toi, disk, file, v, id, fail)

\* the values of the tic_data argument: the default pd.DataFrame() and a
\* frame with rows
TicDataArgs ==
    {[columns |-> {}, index |-> << >>, rows |-> << >>], read_csv(RemoteCsv(1))}

\* TICEntry.load_tic_data; the body never reads tic_data
load_tic_data(toi, tic_data, disk, file, v, id, fail) ==
    IF cached_files_present(disk, toi)
    THEN from_cache(toi, toi, disk, file, id)
    ELSE from_database(toi, disk, file, v, id, fail)

-----------------------------------------------------------------------------
(* Calls of the catalog functions *)

\* the outcomes of the network for a call: it can only fail a call that
\* downloads
NetOutcomes(downloads) == IF downloads THEN BOOLEAN ELSE {TRUE}

\* get_tic_database(form) would go online
Downloads(form) == memo[form] = None /\ (dbFile = NoFile \/ Clean(form))

Requests == UNION {[1..n -> ToiNumbers] : n \in 0..MaxRequest}

EntryVars == <<fs, entries, nextObj, envSteps>>
RaceVars == <<procs, lastWriter>>

GetTicDatabase(form) ==
    \E netOk \in NetOutcomes(Downloads(form)) :
        LET r == get_tic_database(form, memo, dbFile, remote, netOk)
        IN  /\ dbFile' = r.file
            /\ memo' = r.memo
            /\ ret' = [op |-> "get_tic_database", args |-> form, out |-> r.out, net |-> r.net]
            /\ UNCHANGED <<catMemo, RaceVars, remote, EntryVars>>

GetTicIdForToi(toi) ==
    \E netOk \in NetOutcomes(Downloads("()")) :
        LET r == get_tic_id_for_toi(toi, memo, dbFile, remote, netOk)
        IN  /\ dbFile' = r.file
            /\ memo' = r.memo
            /\ ret' = [op |-> "get_tic_id_for_toi", args |-> toi, out |-> r.out, net |-> r.net]
            /\ UNCHANGED <<catMemo, RaceVars, remote, EntryVars>>

GetTicDataFromDatabase(toi_numbers) ==
    \E netOk \in NetOutcomes(Downloads("()")) :
        LET r == get_tic_data_from_database(toi_numbers, memo, dbFile, remote, netOk)
        IN  /\ dbFile' = r.file
            /\ memo' = r.memo
            /\ ret' = [op |-> "get_tic_data_from_database", args |-> toi_numbers,
                       out |-> r.out, net |-> r.net]
            /\ UNCHANGED <<catMemo, RaceVars, remote, EntryVars>>

GetToiNumbersForDifferentCategories ==
    \E netOk \in NetOutcomes(catMemo = None /\ Downloads("()")) :
        LET r == get_toi_numbers_for_different_categories(catMemo, memo, dbFile, remote, netOk)
        IN  /\ dbFile' = r.file
            /\ memo' = r.memo
            /\ catMemo' = r.catMemo
            /\ ret' = [op |-> "get_toi_numbers_for_different_categories", args |-> None,
                       out |-> r.out, net |-> r.net]
            /\ UNCHANGED <<RaceVars, remote, EntryVars>>

GetToiList(remove_toi_without_lk) ==
    \E netOk \in NetOutcomes(Downloads("()")) :
        LET r == get_toi_list(remove_toi_without_lk, memo, dbFile, remote, netOk)
        IN  /\ dbFile' = r.file
            /\ memo' = r.memo
            /\ ret' = [op |-> "get_toi_list", args |-> remove_toi_without_lk,
                       out |-> r.out, net |-> r.net]
            /\ UNCHANGED <<catMemo, RaceVars, remote, EntryVars>>

TE_GetTicDataFromDatabase(toi_numbers) ==
    \E netOk \in NetOutcomes(dbFile = NoFile) :
        LET r == TE_get_tic_data_from_database(toi_numbers, dbFile, remote, netOk)
        IN  /\ dbFile' = r.file
            /\ ret' = [op |-> "tic_entry.get_tic_data_from_database",
                       args |-> toi_numbers, out |-> r.out, net |-> r.net]
            /\ UNCHANGED <<catMemo, RaceVars, remote, memo, EntryVars>>

\* the ExoFOP server publishes another catalog
RemoteUpdate ==
    /\ \E v \in DOMAIN RemoteCatalogs : v # remote /\ remote' = v
    /\ ret' = [op |-> "remote update", args |-> None, out |-> None, net |-> {}]
    /\ UNCHANGED <<catMemo, RaceVars, dbFile, memo, EntryVars>>

\* the process ends and another starts: the memo is gone, the files stay
ProcessRestart ==
    /\ memo' = [f \in CallForms |-> None]
    /\ catMemo' = None
    /\ ret' = [op |-> "process restart", args |-> None, out |-> None, net |-> {}]
    /\ UNCHANGED <<RaceVars, remote, dbFile, EntryVars>>

-----------------------------------------------------------------------------
(* Calls on entries *)

\* which remote source, if any, is down during a call
FailPoints == {"none", "catalog", "lightcurve", "stellar_data"}

\* a remote source can only fail a call that contacts it
CanFail(fail, goesRemote) ==
    /\ fail # "none" => goesRemote
    /\ fail = "catalog" => dbFile = NoFile

\* a construction call: the entry, if one was built, joins the heap (which
\* holds at most MaxEntries entries)
Constructed(op, toi, r) ==
    /\ IsExc(r.out) \/ Len(entries) < MaxEntries
    /\ fs' = r.disk
    /\ dbFile' = r.file
    /\ entries' = IF IsExc(r.out) THEN entries ELSE Append(entries, r.out)
    /\ nextObj' = IF IsExc(r.out) THEN nextObj ELSE nextObj + 3
    /\ ret' = [op |-> op, args |-> toi,
               out |-> IF IsExc(r.out) THEN r.out ELSE [val |-> Len(entries) + 1],
               net |-> r.net]
    /\ UNCHANGED <<catMemo, RaceVars, remote, memo, envSteps>>

LoadTicData(toi) ==
    \E fail \in FailPoints, tic_data \in TicDataArgs :
        /\ CanFail(fail, ~cached_files_present(fs, toi))
        /\ Constructed("load_tic_data", toi,
                       load_tic_data(toi, tic_data, fs, dbFile, remote, nextObj, fail))

FromDatabase(toi) ==
    \E fail \in FailPoints :
        /\ CanFail(fail, TRUE)
        /\ Constructed("from_database", toi,
                       from_database(toi, fs, dbFile, remote, nextObj, fail))

FromCache(toi) ==
    Constructed("from_cache", toi, from_cache(toi, toi, fs, dbFile, nextObj))

\* TICEntry.cached_files_present(outdir) called on its own
CachedFilesPresent(toi) ==
    /\ ret' = [op |-> "cached_files_present", args |-> toi,
               out |-> [val |-> cached_files_present(fs, toi)], net |-> {}]
    /\ UNCHANGED <<catMemo, RaceVars, remote, dbFile, memo, EntryVars>>

\* entry.save_data(trace); trace is None (persist) or [val |-> a trace]
SaveData(i, trace) ==
    /\ i \in DOMAIN entries
    /\ trace # None => nextObj <= MaxObjects
    /\ LET r == save_data(entries[i], trace, fs, nextObj)
       IN  /\ entries' = [entries EXCEPT ![i] = r.entry]
           /\ fs' = r.disk
    /\ nextObj' = IF trace # None THEN nextObj + 1 ELSE nextObj
    /\ ret' = [op |-> "save_data", args |-> i, out |-> trace, net |-> {}]
    /\ UNCHANGED <<catMemo, RaceVars, remote, dbFile, memo, envSteps>>

\* somebody deletes a file of an output directory
RemoveFile(toi, name) ==
    /\ envSteps < MaxEnvSteps
    /\ isfile(fs, toi, name)
    /\ fs' = [fs EXCEPT ![toi][name] = NoFile]
    /\ envSteps' = envSteps + 1
    /\ ret' = [op |-> "remove file", args |-> None, out |-> None, net |-> {}]
    /\ UNCHANGED <<catMemo, RaceVars, remote, dbFile, memo, entries, nextObj>>

\* a file of an output directory is damaged (truncated write, disk fault)
CorruptFile(toi, name) ==
    /\ envSteps < MaxEnvSteps
    /\ isfile(fs, toi, name)
    /\ fs[toi][name] # Corrupt
    /\ fs' = [fs EXCEPT ![toi][name] = Corrupt]
    /\ envSteps' = envSteps + 1
    /\ ret' = [op |-> "corrupt file", args |-> None, out |-> None, net |-> {}]
    /\ UNCHANGED <<catMemo, RaceVars, remote, dbFile, memo, entries, nextObj>>

\* the process ends: its objects are gone, the files stay for the next one
EndOfProcess ==
    /\ envSteps < MaxEnvSteps
    /\ entries # << >>
    /\ entries' = << >>
    /\ nextObj' = 1
    /\ envSteps' = envSteps + 1
    /\ ret' = [op |-> "end of process", args |-> None, out |-> None, net |-> {}]
    /\ UNCHANGED <<catMemo, RaceVars, remote, dbFile, memo, fs>>

-----------------------------------------------------------------------------
(* Two processes calling load_tic_data at the same time. Each is a Python    *)
(* process of its own, with its own objects; they share the disk. A step is  *)
(* one stretch of the call between two accesses to the shared directory:     *)
(* the completeness check, the construction of the parts, os.makedirs, and   *)
(* each of the three writes of save_data.                                    *)

Procs == {1, 2}
RaceTois == {1, 2}
Idle == [pc |-> "idle", toi |-> 0, entry |-> None]

\* the files save_data() writes, in the order it writes them
SaveOrder == <<TIC_FNAME, "lightcurve", "stellar_data">>

\* what save_data writes into the file name of the entry's directory
SavedFile(e, name) ==
    IF name = TIC_FNAME THEN to_csv(e.tic_data, TRUE) ELSE SubCacheFile(e[name])

\* a write that leaves a file that is already there as it is
WriteFile_KeepExisting(disk, outdir, name, content) ==
    IF disk[outdir][name] = NoFile THEN [disk EXCEPT ![outdir][name] = content] ELSE disk

\* one write of save_data: the file is created or overwritten
WriteFile(disk, outdir, name, content) == [disk EXCEPT ![outdir][name] = content]

\* line 111: the process looks at the directory and takes its branch
P_Call(p, toi) ==
    /\ procs[p].pc = "idle"
    /\ procs' = [procs EXCEPT ![p] =
           [pc |-> IF cached_files_present(fs, toi) THEN "from_cache" ELSE "from_database",
            toi |-> toi, entry |-> None]]
    /\ UNCHANGED <<remote, dbFile, memo, catMemo, EntryVars, ret, lastWriter>>

\* the parts of the entry are in hand and __init__ has reached the outdir
\* setter: the entry is complete but for what the setter does to the disk
P_Built(p, r) ==
    /\ procs' = [procs EXCEPT ![p].pc = IF IsExc(r.out) THEN "raised" ELSE "makedirs",
                              ![p].entry = r.out]
    /\ dbFile' = r.file
    /\ UNCHANGED <<remote, memo, catMemo, EntryVars, ret, lastWriter>>

\* lines 121-130: the catalog lookup and the two remote sub-caches
P_FromDatabase(p) ==
    /\ procs[p].pc = "from_database"
    /\ \E fail \in FailPoints :
           /\ CanFail(fail, TRUE)
           /\ P_Built(p, from_database(procs[p].toi, fs, dbFile, remote, 1, fail))

\* lines 134-149: the reads of the directory's files
P_FromCache(p) ==
    /\ procs[p].pc = "from_cache"
    /\ P_Built(p, from_cache(procs[p].toi, procs[p].toi, fs, dbFile, 1))

\* line 171: os.makedirs(outdir, exist_ok=True)
P_Makedirs(p) ==
    /\ procs[p].pc = "makedirs"
    /\ fs' = IF fs[procs[p].toi] = None
             THEN [fs EXCEPT ![procs[p].toi] = EmptyDir] ELSE fs
    /\ procs' = [procs EXCEPT ![p].pc = SaveOrder[1]]
    /\ UNCHANGED <<remote, dbFile, memo, catMemo, entries, nextObj, envSteps, ret, lastWriter>>

\* lines 193-195: the k-th write of save_data()
P_Save(p, k) ==
    /\ procs[p].pc = SaveOrder[k]
    /\ fs' = WriteFile(fs, procs[p].toi, SaveOrder[k], SavedFile(procs[p].entry, SaveOrder[k]))
    /\ lastWriter' = [lastWriter EXCEPT ![procs[p].toi][SaveOrder[k]] = p]
    /\ procs' = [procs EXCEPT ![p].pc = IF k < Len(SaveOrder) THEN SaveOrder[k + 1]
                                        ELSE "returned"]
    /\ UNCHANGED <<remote, dbFile, memo, catMemo, entries, nextObj, envSteps, ret>>

Init ==
    /\ remote = 1
    /\ dbFile = NoFile
    /\ memo = [f \in CallForms |-> None]
    /\ fs = [t \in ToiNumbers |-> None]
    /\ entries = << >>
    /\ nextObj = 1
    /\ envSteps = 0
    /\ ret = [op |-> "start", args |-> None, out |-> None, net |-> {}]
    /\ catMemo = None
    /\ procs = [p \in Procs |-> Idle]
    /\ lastWriter = [t \in ToiNumbers |-> [f \in FileNames |-> 0]]

NextCatalog ==
    \/ \E form \in CallForms : GetTicDatabase(form)
    \/ \E toi \in ToiNumbers : GetTicIdForToi(toi)
    \/ \E req \in Requests : GetTicDataFromDatabase(req)
    \/ \E req \in Requests : TE_GetTicDataFromDatabase(req)
    \/ GetToiNumbersForDifferentCategories
    \/ \E remove \in BOOLEAN : GetToiList(remove)
    \/ RemoteUpdate
    \/ ProcessRestart

SpecCatalog == Init /\ [][NextCatalog]_vars

NextEntry ==
    \/ \E toi \in EntryTois : LoadTicData(toi)
    \/ \E toi \in EntryTois : FromDatabase(toi)
    \/ \E toi \in EntryTois : FromCache(toi)
    \/ \E toi \in EntryTois : CachedFilesPresent(toi)
    \/ \E i \in 1..MaxEntries, trace \in {None} \cup {[val |-> t] : t \in Traces} :
           SaveData(i, trace)
    \/ \E toi \in EntryTois, name \in FileNames : RemoveFile(toi, name)
    \/ \E toi \in EntryTois, name \in FileNames : CorruptFile(toi, name)

SpecEntry == Init /\ [][NextEntry]_vars

\* one id over several runs of the program
RunTois == {1}

NextRuns ==
    \/ \E toi \in RunTois : LoadTicData(toi)
    \/ \E toi \in RunTois : FromDatabase(toi)
    \/ \E toi \in RunTois : FromCache(toi)
    \/ \E i \in 1..MaxEntries, trace \in {None} \cup {[val |-> t] : t \in Traces} :
           SaveData(i, trace)
    \/ \E toi \in RunTois, name \in FileNames : RemoveFile(toi, name)
    \/ \E toi \in RunTois, name \in FileNames : CorruptFile(toi, name)
    \/ EndOfProcess

SpecRuns == Init /\ [][NextRuns]_vars

NextRace ==
    \/ \E p \in Procs, toi \in RaceTois : P_Call(p, toi)
    \/ \E p \in Procs : P_FromDatabase(p)
    \/ \E p \in Procs : P_FromCache(p)
    \/ \E p \in Procs : P_Makedirs(p)
    \/ \E p \in Procs, k \in DOMAIN SaveOrder : P_Save(p, k)

SpecRace == Init /\ [][NextRace]_vars

-----------------------------------------------------------------------------
(* Properties *)

Mandatory == {TIC_FNAME, "lightcurve", "stellar_data"}
IsOk(call) == ~IsExc(call.out)

\* C2: cached_files_present(directory) is true exactly when the directory
\* exists and the catalog-row, light-curve and stellar files all exist in it;
\* one of the three missing makes it false, and the inference-result file
\* plays no part.
C2_CachedFilesPresentIffThreeFiles ==
    ret.op = "cached_files_present" =>
        LET dir == fs[ret.args]
        IN  ret.out.val = (/\ dir # None
                           /\ dir[TIC_FNAME] # NoFile
                           /\ dir["lightcurve"] # NoFile
                           /\ dir["stellar_data"] # NoFile)

\* C2 happens: the check answered false on a directory that still holds two
\* of the three files
C2_Witness ==
    /\ ret.op = "cached_files_present"
    /\ ~ret.out.val
    /\ fs[ret.args] # None
    /\ Cardinality({f \in Mandatory : fs[ret.args][f] # NoFile}) = 2

\* the requested ids that have no ".01" row in the frame db
Unknown(db, toi_numbers) ==
    {i \in DOMAIN toi_numbers :
        \A k \in DOMAIN db.rows : db.rows[k]["TOI"] # toi_numbers[i] * 100 + 1}

\* C3: get_tic_data_from_database called with an id that has no row in the
\* catalog ends by raising the "no data" ValueError.
C3_UnknownIdRaisesNoData ==
    (/\ ret.op = "get_tic_data_from_database"
     /\ memo["()"] # None
     /\ Unknown(memo["()"], ret.args) # {})
        => ret.out = Raise("ValueError: TOI data does not exist")

\* C4: once a call with clean=True has completed in this process, a call
\* without clean returns the refreshed snapshot, the flat file's content.
C4_CleanInvalidatesMemo ==
    (/\ ret.op = "get_tic_database"
     /\ ~Clean(ret.args)
     /\ IsOk(ret)
     /\ memo["(clean=True)"] # None)
        => ret.out = read_csv(dbFile)

\* C5: whenever the flat file cached_tic_database.csv exists it carries the
\* three flag columns, whichever function wrote it.
C5_FlatFileHasFlagColumns ==
    dbFile # NoFile => FlagCols \subseteq dbFile.header

\* the rows of db that belong to the target of the ".01" row of toi
TargetRows(db, toi) ==
    LET first == CHOOSE r \in Range(db.rows) : r["TOI"] = toi * 100 + 1
    IN  {r \in Range(db.rows) : r["TIC ID"] = first["TIC ID"]}

\* seq lists exactly the rows of the set S, in ascending candidate-set id
AscendingListOf(seq, S) ==
    /\ Len(seq) = Cardinality(S)
    /\ Range(seq) = S
    /\ \A i, j \in DOMAIN seq : i < j => seq[i]["TOI"] < seq[j]["TOI"]

\* out is, request by request, the ascending list of each request's target rows
RECURSIVE RowsPerRequest(_, _, _)
RowsPerRequest(out, db, toi_numbers) ==
    IF toi_numbers = << >> THEN out = << >>
    ELSE LET n == Cardinality(TargetRows(db, Head(toi_numbers)))
         IN  /\ Len(out) >= n
             /\ AscendingListOf(SubSeq(out, 1, n), TargetRows(db, Head(toi_numbers)))
             /\ RowsPerRequest(SubSeq(out, n + 1, Len(out)), db, Tail(toi_numbers))

\* C7: get_tic_data_from_database, for ids that are in the catalog, returns
\* for each requested id in request order exactly the rows of the target of
\* the id's ".01" row, each target's rows in ascending candidate-set id.
C7_RowsForTargets ==
    (/\ ret.op = "get_tic_data_from_database"
     /\ memo["()"] # None
     /\ ret.args # << >>
     /\ Unknown(memo["()"], ret.args) = {})
        => /\ IsFrame(ret.out)
           /\ RowsPerRequest(ret.out.rows, memo["()"], ret.args)

\* C7 happens: a single id whose target has two candidate rows, stored in
\* descending order in the catalog, comes back as those two rows ascending
C7_Witness ==
    /\ ret.op = "get_tic_data_from_database"
    /\ ret.args = <<1>>
    /\ IsFrame(ret.out)
    /\ memo["()"].rows[1]["TOI"] = 102
    /\ [i \in DOMAIN ret.out.rows |-> ret.out.rows[i]["TOI"]] = <<101, 102>>

-----------------------------------------------------------------------------
(* Properties of entries; ret is the call before a step and ret' the call   *)
(* the step makes                                                           *)

\* the step builds from the local cache, directly or through load_tic_data
FromCacheStep ==
    \/ ret'.op = "from_cache"
    \/ ret'.op = "load_tic_data" /\ cached_files_present(fs, ret'.args)

\* the step builds from the remote sources
FromDatabaseStep ==
    \/ ret'.op = "from_database"
    \/ ret'.op = "load_tic_data" /\ ~cached_files_present(fs, ret'.args)

FieldValues(e) == [i \in DOMAIN e.candidates |-> e.candidates[i].fields]
CatalogRows(df) == [i \in DOMAIN df.rows |-> [c \in BaseCols |-> df.rows[i][c]]]

\* what two load_tic_data calls in a row on one id give, the first on a
\* directory without a complete cache; Readable restricts the directories
ResolveTwice(Readable) ==
    /\ (ret'.op = "load_tic_data" /\ FromDatabaseStep /\ IsOk(ret'))
        => ~entries'[ret'.out.val].loaded_from_cache
    /\ (/\ ret.op = "load_tic_data" /\ IsOk(ret)
        /\ ~entries[ret.out.val].loaded_from_cache
        /\ ret'.op = "load_tic_data" /\ ret'.args = ret.args
        /\ Readable)
        => /\ IsOk(ret')
           /\ LET a == entries[ret.out.val]
                  b == entries'[ret'.out.val]
              IN  /\ b.loaded_from_cache
                  /\ planet_count(b) = planet_count(a)
                  /\ FieldValues(b) = FieldValues(a)
                  /\ CatalogRows(b.tic_data) = CatalogRows(a.tic_data)
                  /\ b.lightcurve.data = a.lightcurve.data
                  /\ b.stellar_data.data = a.stellar_data.data

\* C1 as stated: load_tic_data on an id whose directory holds no complete
\* cache gives an entry with loaded_from_cache false, and load_tic_data on the
\* same id right after gives one with loaded_from_cache true, the same
\* planet_count and candidate field values, and the catalog rows, light-curve
\* and stellar data that were persisted.
C1_ResolveTwice == [][ResolveTwice(TRUE)]_vars

\* C1: the same, for directories that hold no unreadable inference-result
\* file.
C1_ResolveTwiceReadableInference ==
    [][ResolveTwice(fs[ret'.args]["inference_data"] # Corrupt)]_vars

\* C1 happens: two entries of one id with two candidates, the first built
\* from the remote sources and the second, by the last call, from the cache
C1_Witness ==
    /\ ret.op = "load_tic_data" /\ IsOk(ret) /\ ret.out.val = 2
    /\ entries[1].toi_number = entries[2].toi_number
    /\ ~entries[1].loaded_from_cache /\ entries[2].loaded_from_cache
    /\ planet_count(entries[2]) = 2

\* all of an entry but its inference sub-cache
Frame(e) == [e EXCEPT !.inference_data = None]

\* C6: save_data with a trace on an entry without inference data makes the
\* inference sub-cache present and leaves the entry's light-curve and stellar
\* objects, catalog rows, candidates, identifiers, output directory and
\* loaded_from_cache flag as they were.
C6_AttachChangesOnlyInference ==
    [][(/\ ret'.op = "save_data" /\ ret'.out # None
        /\ entries[ret'.args].inference_data = None)
           => /\ entries'[ret'.args].inference_data # None
              /\ entries'[ret'.args].inference_data.data = ret'.out.val
              /\ Frame(entries'[ret'.args]) = Frame(entries[ret'.args])
              /\ \A k \in DOMAIN entries : k # ret'.args => entries'[k] = entries[k]]_vars

\* C6 happens: the only entry was built without inference data and the one
\* save_data with a trace made since has attached it
C6_Witness ==
    /\ ret.op = "save_data" /\ ret.out # None
    /\ Len(entries) = 1 /\ nextObj = 5
    /\ ~entries[1].loaded_from_cache
    /\ entries[1].inference_data # None

\* every entry's candidates are its catalog rows, one to one and in order
CandidatesFollowRows ==
    \A k \in DOMAIN entries :
        LET e == entries[k]
        IN  /\ planet_count(e) = Len(e.tic_data.rows)
            /\ \A i \in DOMAIN e.candidates :
                   /\ e.candidates[i].fields.toi = e.tic_data.rows[i]["TOI"]
                   /\ e.candidates[i].fields.tic = e.tic_data.rows[i]["TIC ID"]
                   /\ e.candidates[i].fields.period = e.tic_data.rows[i]["Period (days)"]
                   /\ e.candidates[i].lightcurve = e.lightcurve.id

\* C8: in every state every entry's candidate sequence is one to one with its
\* catalog rows in stored order, and an entry built from the cache has its
\* candidates in the row order of the persisted catalog-row file.
C8_CandidatesOneToOne ==
    /\ []CandidatesFollowRows
    /\ [][(FromCacheStep /\ IsOk(ret'))
              => [i \in DOMAIN entries'[ret'.out.val].candidates |->
                     entries'[ret'.out.val].candidates[i].fields.toi]
                 = [i \in DOMAIN fs[ret'.args][TIC_FNAME].lines |->
                     fs[ret'.args][TIC_FNAME].lines[i]["TOI"]]]_vars

\* C8 happens: an entry built from the cache with two candidates has since
\* been persisted again
C8_Witness ==
    /\ ret.op = "save_data"
    /\ entries[ret.args].loaded_from_cache
    /\ planet_count(entries[ret.args]) = 2

\* an expected file of the directory is absent or unreadable
Broken(disk, outdir) ==
    \/ disk[outdir] = None
    \/ \E f \in Mandatory : disk[outdir][f] \in {NoFile, Corrupt}

\* C9: from_cache on a directory with an expected file absent or unreadable
\* ends in an error, constructs no entry and calls no remote source.
C9_FromCacheFailsWithoutFallback ==
    [][(FromCacheStep /\ Broken(fs, ret'.args))
           => /\ IsExc(ret'.out)
              /\ ret'.net = {}
              /\ entries' = entries
              /\ fs' = fs
              /\ dbFile' = dbFile]_vars

\* C9 happens: from_cache failed on a directory that has its catalog-row
\* file but not its light-curve file
C9_Witness ==
    /\ ret.op = "from_cache" /\ IsExc(ret.out)
    /\ fs[ret.args] # None
    /\ fs[ret.args][TIC_FNAME] \notin {NoFile, Corrupt}
    /\ fs[ret.args]["lightcurve"] = NoFile

\* C10 as stated: a from_database that fails leaves everything on disk as it
\* was.
C10_FailedRemoteBuildLeavesDisk ==
    [][(FromDatabaseStep /\ IsExc(ret'.out)) => (fs' = fs /\ dbFile' = dbFile)]_vars

\* C10: a from_database that fails leaves the output directories as they
\* were: none is created, and no directory or file of an earlier run is
\* deleted or modified.
C10_FailedRemoteBuildLeavesDirectories ==
    [][(FromDatabaseStep /\ IsExc(ret'.out)) => fs' = fs]_vars

\* C10 happens: from_database failed at the light curve, after the catalog
\* lookup, on an id whose directory an earlier run left behind
C10_Witness ==
    /\ ret.op = "from_database"
    /\ ret.out = Raise("LightCurveError")
    /\ fs[ret.args] # None

-----------------------------------------------------------------------------
(* Properties of the catalog accessor, continued *)

\* C11: every get_tic_database(clean=True) goes online, and one that returns
\* gives the catalog the server serves now with its derived columns, which is
\* also what the flat file holds afterwards; a call without clean goes online
\* only when the flat file is absent.
C11_CleanAlwaysBypasses ==
    [][ret'.op = "get_tic_database" =>
          /\ Clean(ret'.args) =>
                 /\ "catalog" \in ret'.net
                 /\ IsOk(ret') =>
                        /\ ret'.out = DeriveColumns(read_csv(RemoteCsv(remote)))
                        /\ dbFile' = to_csv(ret'.out, FALSE)
          /\ (~Clean(ret'.args) /\ "catalog" \in ret'.net) => dbFile = NoFile]_vars

\* the integer part of a row's candidate-set id
IntId(row) == row["TOI"] \div 100

\* the rows of the frame db are flagged as the catalog's rows should be
FlagsRight(db) ==
    \A i \in DOMAIN db.rows :
        /\ db.rows[i]["Multiplanet System"]
              <=> \E j \in DOMAIN db.rows : j # i /\ IntId(db.rows[j]) = IntId(db.rows[i])
        /\ db.rows[i]["Single Transit"] <=> db.rows[i]["Period (days)"] <= 0

NoDuplicates(seq) == \A i, j \in DOMAIN seq : i # j => seq[i] # seq[j]

\* the rows of the frame db with a light curve available
WithLightcurve(db) == {r \in Range(db.rows) : r["Lightcurve Availible"]}

\* C17: every frame get_tic_database has materialized with the flag columns
\* flags a row multi-planet exactly when another row has the same integer
\* id, and single-transit exactly when its period is <= 0; and what
\* get_toi_numbers_for_different_categories returns is made of the rows with
\* a light curve available only: 'multi' and 'single' are the integer ids of
\* the rows so flagged, 'norm' those of the rows flagged neither, 'norm' and
\* 'multi' share no id, and the three together are the ids of
\* get_toi_list(remove_toi_without_lk=True), which lists each id once.
C17_FlagsAndCategories ==
    /\ \A form \in CallForms :
           (memo[form] # None /\ FlagCols \subseteq memo[form].columns)
               => FlagsRight(memo[form])
    /\ (ret.op = "get_toi_numbers_for_different_categories" /\ IsOk(ret)) =>
           LET lk == WithLightcurve(memo["()"])
               list == get_toi_list(TRUE, memo, dbFile, remote, TRUE).out.val
           IN  /\ Range(ret.out.multi) = {IntId(r) : r \in {x \in lk : x["Multiplanet System"]}}
               /\ Range(ret.out.single) = {IntId(r) : r \in {x \in lk : x["Single Transit"]}}
               /\ Range(ret.out.norm)
                     = {IntId(r) : r \in {x \in lk : ~x["Multiplanet System"]
                                                     /\ ~x["Single Transit"]}}
               /\ Range(ret.out.norm) \cap Range(ret.out.multi) = {}
               /\ Range(ret.out.multi) \cup Range(ret.out.single) \cup Range(ret.out.norm)
                     = Range(list)
               /\ NoDuplicates(list)

\* C17 happens: the categories of a catalog that has ids of all three kinds,
\* one id both multi-planet and single-transit, and rows without a light
\* curve that appear nowhere
C17_Witness ==
    /\ ret.op = "get_toi_numbers_for_different_categories" /\ IsOk(ret)
    /\ ret.out.norm # << >>
    /\ Range(ret.out.multi) \cap Range(ret.out.single) # {}
    /\ Range(ret.out.multi) \ Range(ret.out.single) # {}
    /\ \E r \in Range(memo["()"].rows) : ~r["Lightcurve Availible"]

-----------------------------------------------------------------------------
(* Properties of entries, continued *)

\* C14: load_tic_data takes its branch on cached_files_present alone,
\* whatever the tic_data argument. When the check is true the call contacts
\* no remote source and leaves the flat catalog file and the memo alone, and
\* the entry it builds is marked loaded_from_cache and has the rows of the
\* directory's catalog-row file; when the check is false the entry it builds
\* is not marked loaded_from_cache, has the rows the catalog lookup gives and
\* sub-caches fetched from the remote sources.
C14_DispatchOnCompleteness ==
    [][ret'.op = "load_tic_data" =>
          IF cached_files_present(fs, ret'.args)
          THEN /\ ret'.net = {}
               /\ dbFile' = dbFile
               /\ memo' = memo
               /\ IsOk(ret') =>
                      /\ entries'[ret'.out.val].loaded_from_cache
                      /\ entries'[ret'.out.val].tic_data = read_csv(fs[ret'.args][TIC_FNAME])
          ELSE /\ IsExc(ret'.out) => entries' = entries
               /\ IsOk(ret') =>
                      /\ ~entries'[ret'.out.val].loaded_from_cache
                      /\ {"lightcurve", "stellar_data"} \subseteq ret'.net
                      /\ entries'[ret'.out.val].tic_data
                            = TE_get_tic_data_from_database(<<ret'.args>>, dbFile, remote, TRUE).out]_vars

\* C14 happens: load_tic_data has built an entry from the directory's files
\* without any remote call, and the rows it holds are not the frame a
\* catalog lookup gives
C14_Witness ==
    /\ ret.op = "load_tic_data" /\ IsOk(ret) /\ ret.net = {}
    /\ entries[ret.out.val].loaded_from_cache
    /\ entries[ret.out.val].tic_data
          # TE_get_tic_data_from_database(<<ret.args>>, dbFile, remote, TRUE).out

ConstructionStep ==
    /\ ret'.op \in {"load_tic_data", "from_database", "from_cache"}
    /\ IsOk(ret')

\* C15: when from_database, from_cache or load_tic_data returns an entry, the
\* entry's output directory exists and holds the entry's catalog rows,
\* light-curve and stellar data, so that cached_files_present is true of it;
\* the inference-result file is as it was before the call (absent if the
\* directory was), and no other directory is touched.
C15_ConstructionPersists ==
    [][ConstructionStep =>
          LET e == entries'[ret'.out.val]
              t == ret'.args
          IN  /\ cached_files_present(fs', t)
              /\ \A f \in Mandatory : fs'[t][f] = SavedFile(e, f)
              /\ fs'[t]["inference_data"]
                    = (IF fs[t] = None THEN NoFile ELSE fs[t]["inference_data"])
              /\ \A u \in ToiNumbers \ {t} : fs'[u] = fs[u]]_vars

\* C15 happens: the first entry ever built, by from_database, has left a
\* complete directory without an inference-result file
C15_Witness ==
    /\ ret.op = "from_database" /\ IsOk(ret)
    /\ Len(entries) = 1 /\ envSteps = 0
    /\ cached_files_present(fs, ret.args)
    /\ fs[ret.args]["inference_data"] = NoFile

\* what from_cache makes of the inference-result file, and what follows for
\* load_tic_data after save_data with a trace and for two load_tic_data in a
\* row; NoLeftover restricts the directories of the latter
InferenceFollowsFile(NoLeftover) ==
    /\ (FromCacheStep /\ IsOk(ret')) =>
           LET inf == entries'[ret'.out.val].inference_data
           IN  IF isfile(fs, ret'.args, "inference_data")
               THEN inf # None /\ inf.data = fs[ret'.args]["inference_data"].payload
               ELSE inf = None
    /\ (/\ ret.op = "save_data" /\ ret.out # None
        /\ ret'.op = "load_tic_data"
        /\ ret'.args = entries[ret.args].toi_number)
           => /\ IsOk(ret')
              /\ entries'[ret'.out.val].loaded_from_cache
              /\ entries'[ret'.out.val].inference_data # None
              /\ entries'[ret'.out.val].inference_data.data = ret.out.val
    /\ (/\ ret.op = "load_tic_data" /\ IsOk(ret)
        /\ ret'.op = "load_tic_data" /\ IsOk(ret')
        /\ ret'.args = ret.args
        /\ NoLeftover)
           => entries'[ret'.out.val].inference_data = None

\* C16 as stated: an entry built by from_cache has inference data exactly
\* when the inference-result file is there at load time; load_tic_data right
\* after save_data with a trace on the same id gives an entry that has it;
\* load_tic_data right after load_tic_data on the same id gives one without.
C16_InferenceFollowsFile == [][InferenceFollowsFile(TRUE)]_vars

\* C16: the same, the last part for directories that hold no
\* inference-result file of an earlier save_data.
C16_InferenceFollowsFileNoLeftover ==
    [][InferenceFollowsFile(fs[ret'.args]["inference_data"] = NoFile)]_vars

\* C16 happens: load_tic_data, save_data with a trace, load_tic_data in one
\* run; the second entry comes from the cache with the trace of the first
C16_Witness ==
    /\ ret.op = "load_tic_data" /\ IsOk(ret) /\ ret.out.val = 2
    /\ envSteps = 0
    /\ ~entries[1].loaded_from_cache /\ entries[1].inference_data # None
    /\ entries[2].loaded_from_cache /\ entries[2].inference_data # None
    /\ entries[2].inference_data.data = entries[1].inference_data.data

-----------------------------------------------------------------------------
(* Properties of two concurrent load_tic_data calls *)

\* both processes have returned from load_tic_data on the id t
BothReturned(t) == \A p \in Procs : procs[p].pc = "returned" /\ procs[p].toi = t

\* C12: nothing keeps two processes apart in load_tic_data on one id: when
\* both have returned, each of the three files of the directory holds what
\* the process that wrote it last has written, whatever the other wrote.
C12_LastWriterWins ==
    \A t \in RaceTois :
        BothReturned(t) =>
            \A f \in Mandatory :
                /\ lastWriter[t][f] \in Procs
                /\ fs[t][f] = SavedFile(procs[lastWriter[t][f]].entry, f)

\* C12 happens: both processes saw no cache, both built their entry from the
\* remote sources, their catalog-row files differ, and the directory ends up
\* with the catalog-row file of one and the stellar file of the other
C12_Witness ==
    \E t \in RaceTois :
        /\ BothReturned(t)
        /\ \A p \in Procs : ~procs[p].entry.loaded_from_cache
        /\ SavedFile(procs[1].entry, TIC_FNAME) # SavedFile(procs[2].entry, TIC_FNAME)
        /\ lastWriter[t][TIC_FNAME] # lastWriter[t]["stellar_data"]

====
